---------------------------- MODULE Spec2Model ----------------------------
(***************************************************************************)
(* Model of the grafana-operator Datasource reconciler                     *)
(* (pkg/controller/datasource.go) and of the merge-patch primitive of the  *)
(* typed client utilities (PatchDashboard / PatchDashboardObject).         *)
(*                                                                         *)
(* The declarative store, the informer cache, the work queue and the       *)
(* Grafana backend are the environment.  A reconcile pass is split at its  *)
(* blocking calls (backend call, store write), because workers for         *)
(* distinct keys interleave exactly there.                                 *)
(***************************************************************************)
EXTENDS Naturals, Integers, Sequences, FiniteSets, TLC

VARIABLES
    store,          \* key -> record held by the declarative store
    cache,          \* key -> record held by the informer indexer (may lag)
    queue,          \* work queue: FIFO of keys waiting for a worker
    dirty,          \* work queue: keys added and not yet handed out
    processing,     \* work queue: keys a worker is handling
    worker,         \* worker -> position and locals of its reconcile pass
    grafanaClient,  \* c.grafanaClient: the controller's shared backend handle
    nextID,         \* next identifier the backend assigns on Create
    createdFor,     \* keys for whose record a Create call has succeeded
    otherWrites,    \* writes made so far by the other finalizer owner
    ae              \* harness of the Patch primitive (used by SpecApply)

vars == <<store, cache, queue, dirty, processing, worker, grafanaClient,
          nextID, createdFor, otherWrites, ae>>

---------------------------------------------------------------------------
(* Bounds of the model *)

\* Identifiers the backend hands out, and writes by the other finalizer owner.
MaxCreates == 2
MaxOtherWrites == 1

\* Version tokens of the records Patch is tried on.
MaxVersion == 2

\* Workers of the dispatcher (c.NumThreads).
NumThreads == 2

\* The resource keys.
Keys == {1, 2}
Workers == 1..NumThreads

---------------------------------------------------------------------------
(* Records *)

DatasourceFinalizer == "datasource.grafana.searchlight.dev"
OtherFinalizer == "other.example.dev"

\* Status.DatasourceID is a *int64: Nil is the nil pointer.
Nil == 0

NoObject ==
    [exists |-> FALSE, finalizers |-> <<>>, deletionTimestamp |-> FALSE,
     resourceVersion |-> 0, datasourceID |-> Nil]

NewObject ==
    [exists |-> TRUE, finalizers |-> <<>>, deletionTimestamp |-> FALSE,
     resourceVersion |-> 1, datasourceID |-> Nil]

SeqToSet(s) == {s[i] : i \in 1..Len(s)}

RECURSIVE Filter(_, _)
Filter(s, t) ==
    IF s = <<>> THEN <<>>
    ELSE IF Head(s) = t THEN Filter(Tail(s), t)
         ELSE <<Head(s)>> \o Filter(Tail(s), t)

HasFinalizer(obj, f) == f \in SeqToSet(obj.finalizers)

AddFinalizer(fins, f) == IF f \in SeqToSet(fins) THEN fins ELSE Append(fins, f)

RemoveFinalizer(fins, f) == Filter(fins, f)

\* The backend a record's Spec.Grafana reference names.
GrafanaOf(k) == k

---------------------------------------------------------------------------
(* JSON form of a record and the merge patch between two JSON forms *)

\* A JSON member: present or omitted (omitempty), with its value.
Member(present, v, zero) == [p |-> present, v |-> IF present THEN v ELSE zero]

\* json.Marshal: empty finalizer lists, a nil deletion timestamp and a nil
\* status identifier are omitted from the document.  A record that is not
\* there marshals like the empty template.
Marshal(obj) ==
    [finalizers        |-> Member(obj.finalizers # <<>>, obj.finalizers, <<>>),
     deletionTimestamp |-> Member(obj.deletionTimestamp, TRUE, FALSE),
     resourceVersion   |-> Member(obj.resourceVersion # 0, obj.resourceVersion, 0),
     datasourceId      |-> Member(obj.datasourceID # Nil, obj.datasourceID, Nil)]

\* The inverse the store applies to a document it holds.
Unmarshal(doc) ==
    [exists            |-> TRUE,
     finalizers        |-> doc.finalizers.v,
     deletionTimestamp |-> doc.deletionTimestamp.p,
     resourceVersion   |-> doc.resourceVersion.v,
     datasourceID      |-> doc.datasourceId.v]

\* One member of a merge patch: left out ("same"), null (delete the member)
\* or the new value.  A list is replaced as a whole.
PatchMember(a, b, zero) ==
    IF a = b THEN [k |-> "same", v |-> zero]
    ELSE IF ~b.p THEN [k |-> "null", v |-> zero]
    ELSE [k |-> "set", v |-> b.v]

\* jsonpatch.CreateMergePatch(curJson, modJson)
CreateMergePatch(curJson, modJson) ==
    [finalizers        |-> PatchMember(curJson.finalizers, modJson.finalizers, <<>>),
     deletionTimestamp |-> PatchMember(curJson.deletionTimestamp, modJson.deletionTimestamp, FALSE),
     resourceVersion   |-> PatchMember(curJson.resourceVersion, modJson.resourceVersion, 0),
     datasourceId      |-> PatchMember(curJson.datasourceId, modJson.datasourceId, Nil)]

PatchFields == {"finalizers", "deletionTimestamp", "resourceVersion", "datasourceId"}

IsEmptyPatchNever(patch) == FALSE

\* len(patch) == 0 || string(patch) == "{}"
IsEmptyPatch(patch) == \A f \in PatchFields : patch[f].k = "same"

EmptyPatch == CreateMergePatch(Marshal(NoObject), Marshal(NoObject))

ApplyMember(m, pm, zero) ==
    IF pm.k = "same" THEN m
    ELSE IF pm.k = "null" THEN Member(FALSE, zero, zero)
    ELSE Member(TRUE, pm.v, zero)

\* The store's side of a merge patch: the patch applied to the document the
\* store holds now; the version token is the store's own.
ApplyMergePatch(doc, patch) ==
    [finalizers        |-> ApplyMember(doc.finalizers, patch.finalizers, <<>>),
     deletionTimestamp |-> ApplyMember(doc.deletionTimestamp, patch.deletionTimestamp, FALSE),
     resourceVersion   |-> doc.resourceVersion,
     datasourceId      |-> ApplyMember(doc.datasourceId, patch.datasourceId, Nil)]

\* The record the store holds after a write that turns held into next: the
\* version token advances exactly when the content changed.
Stored(held, next) ==
    IF [next EXCEPT !.resourceVersion = held.resourceVersion] = held
    THEN held
    ELSE [next EXCEPT !.resourceVersion = held.resourceVersion + 1]

\* Patch request as the store serves it: the outcomes it can answer with.
\* A patch that carries a version token is refused when the token is stale.
StorePatchResults(held, patch) ==
    IF ~held.exists THEN {"notfound", "error"}
    ELSE IF patch.resourceVersion.k = "set"
            /\ patch.resourceVersion.v # held.resourceVersion
         THEN {"conflict", "error"}
         ELSE {"ok", "error"}

StorePatched(held, patch) ==
    Stored(held, Unmarshal(ApplyMergePatch(Marshal(held), patch)))

\* UpdateStatus request as the store serves it: optimistic concurrency on the
\* version token of the submitted record.
StoreStatusResults(held, obj) ==
    IF ~held.exists THEN {"notfound", "error"}
    ELSE IF obj.resourceVersion # held.resourceVersion THEN {"conflict", "error"}
         ELSE {"ok", "error"}

\* Only the status sub-object of the submitted record is taken.
StoreStatusUpdated(held, obj) ==
    Stored(held, [held EXCEPT !.datasourceID = obj.datasourceID])

---------------------------------------------------------------------------
(* Apply Engine: Patch *)

\* PatchDashboardObject(c, cur, mod): the verb, and the patch sent if any.
PatchDashboardObject(cur, mod) ==
    LET patch == CreateMergePatch(Marshal(cur), Marshal(mod))
    IN  IF IsEmptyPatch(patch)
        THEN [verb |-> "unchanged", send |-> FALSE, patch |-> patch]
        ELSE [verb |-> "patched", send |-> TRUE, patch |-> patch]

\* The mutators: the two closures of the reconciler, the identity, and a
\* mutator that is not idempotent (it flips the finalizer).
Mutators == {"identity", "addFinalizer", "removeFinalizer", "toggleFinalizer"}

Mutate(m, obj) ==
    CASE m = "identity" -> obj
      [] m = "addFinalizer" ->
            [obj EXCEPT !.finalizers = AddFinalizer(@, DatasourceFinalizer)]
      [] m = "removeFinalizer" ->
            [obj EXCEPT !.finalizers = RemoveFinalizer(@, DatasourceFinalizer)]
      [] m = "toggleFinalizer" ->
            IF HasFinalizer(obj, DatasourceFinalizer)
            THEN [obj EXCEPT !.finalizers = RemoveFinalizer(@, DatasourceFinalizer)]
            ELSE [obj EXCEPT !.finalizers = AddFinalizer(@, DatasourceFinalizer)]

\* transform runs on cur itself, so cur and mod are one record.
PatchDashboardWithoutCopy(cur, m) ==
    PatchDashboardObject(Mutate(m, cur), Mutate(m, cur))

\* PatchDashboard(c, cur, transform): transform runs on a deep copy of cur.
PatchDashboard(cur, m) == PatchDashboardObject(cur, Mutate(m, cur))

---------------------------------------------------------------------------
(* Work queue (deduplicating, one worker per key) *)

\* The key is queued although its handler is running.
QueueAfterAddWhileHandled(q, d, p, k) ==
    IF k \in d THEN q ELSE Append(q, k)

\* queue.Add(k): a key already waiting is not added twice, and a key being
\* handled is only marked dirty, to be queued again when its handler is done.
QueueAfterAdd(q, d, p, k) ==
    IF k \in d \/ k \in p THEN q ELSE Append(q, k)

\* queue.Done(k) followed, when requeue holds, by queue.AddRateLimited(k).
QueueAfterDone(q, d, k, requeue) ==
    IF k \in d \/ requeue THEN Append(q, k) ELSE q

---------------------------------------------------------------------------
(* Locals of a reconcile pass *)

NoCall == [op |-> "none", id |-> Nil, client |-> 0, ok |-> FALSE, ret |-> Nil]

NoWrite == [op |-> "none", patch |-> EmptyPatch, status |-> Nil, res |-> "none"]

\* snap is the record as the pass read it, ds the pass's own copy of it.
IdleWorker ==
    [pc |-> "idle", key |-> 0, snap |-> NoObject, ds |-> NoObject,
     call |-> NoCall, write |-> NoWrite, err |-> "nil"]

\* A store write's error as the pass returns it.
WriteErr(res) == IF res = "ok" THEN "nil" ELSE "store"

\* c.setGrafanaClient(ds.Namespace, ds.Spec.Grafana): the shared handle is
\* pointed at the backend the record names.
SetGrafanaClient(k) == GrafanaOf(k)

BeingDeletedNever(ds) == FALSE

\* ds.DeletionTimestamp != nil
BeingDeleted(ds) == ds.deletionTimestamp

\* core_util.HasFinalizer(ds.ObjectMeta, DatasourceFinalizer), deletion branch
FinalizerPending(ds) == HasFinalizer(ds, DatasourceFinalizer)

NeedsFinalizerNever(ds) == FALSE

\* !core_util.HasFinalizer(ds.ObjectMeta, DatasourceFinalizer)
NeedsFinalizer(ds) == ~HasFinalizer(ds, DatasourceFinalizer)

MissingIDNever(ds) == FALSE

\* ds.Status.DatasourceID == nil, as runDatasourceFinalizer tests it
MissingID(ds) == ds.datasourceID = Nil

HasExternalIDNever(ds) == FALSE

\* ds.Status.DatasourceID != nil, as reconcileDatasource tests it
HasExternalID(ds) == ds.datasourceID # Nil

\* DeleteDatasource(dsID) through the handle, and what the pass does with the
\* answer: on an error it returns it, else it goes on to remove the finalizer.
DeleteCall(ds, client, ok) ==
    [op |-> "Delete", id |-> ds.datasourceID, client |-> client, ok |-> ok,
     ret |-> Nil]

\* The error of Delete is not looked at.
AfterDeleteIgnoringError(wk, call) ==
    [wk EXCEPT !.pc = "removeFinalizer", !.call = call]

AfterDelete(wk, call) ==
    IF call.ok THEN [wk EXCEPT !.pc = "removeFinalizer", !.call = call]
    ELSE [wk EXCEPT !.pc = "done", !.call = call, !.err = "backend"]

\* dataSrc.ID is left unset.
UpdateCallWithoutID(ds, client, ok) ==
    [op |-> "Update", id |-> Nil, client |-> client, ok |-> ok, ret |-> Nil]

\* UpdateDatasource(dataSrc) with dataSrc.ID taken from the status.
UpdateCall(ds, client, ok) ==
    [op |-> "Update", id |-> ds.datasourceID, client |-> client, ok |-> ok,
     ret |-> Nil]

\* The error of Update is logged and dropped.
AfterUpdateSwallowingError(wk, call) ==
    [wk EXCEPT !.pc = "done", !.call = call]

AfterUpdate(wk, call) ==
    [wk EXCEPT !.pc = "done", !.call = call,
               !.err = IF call.ok THEN "nil" ELSE "backend"]

\* CreateDatasource(dataSrc): on an error the pass returns it, else it puts
\* the identifier answered, if any, into its copy and goes on to UpdateStatus.
CreateCall(client, a) ==
    [op |-> "Create", id |-> Nil, client |-> client, ok |-> a.ok, ret |-> a.ret]

\* The error of Create is not looked at.
AfterCreateIgnoringError(wk, call) ==
    [wk EXCEPT !.pc = "updateStatus", !.call = call,
               !.ds.datasourceID = IF call.ret # Nil THEN call.ret ELSE @]

\* The identifier is not taken from the answer of Create.
AfterCreateDroppingID(wk, call) ==
    IF call.ok
    THEN [wk EXCEPT !.pc = "updateStatus", !.call = call]
    ELSE [wk EXCEPT !.pc = "done", !.call = call, !.err = "backend"]

AfterCreate(wk, call) ==
    IF call.ok
    THEN [wk EXCEPT !.pc = "updateStatus", !.call = call,
                    !.ds.datasourceID = IF call.ret # Nil THEN call.ret ELSE @]
    ELSE [wk EXCEPT !.pc = "done", !.call = call, !.err = "backend"]

---------------------------------------------------------------------------
(* Initial state: one record submitted, nothing observed yet *)

IdleHarness ==
    [pc |-> "idle", mut |-> "identity", cur |-> NoObject, held |-> NoObject,
     apps |-> <<>>]

Init ==
    /\ store = [k \in Keys |-> IF k = 1 THEN NewObject ELSE NoObject]
    /\ cache = [k \in Keys |-> NoObject]
    /\ queue = <<>>
    /\ dirty = {}
    /\ processing = {}
    /\ worker = [w \in Workers |-> IdleWorker]
    /\ grafanaClient = 0
    /\ nextID = 1
    /\ createdFor = {}
    /\ otherWrites = 0
    /\ ae = IdleHarness

---------------------------------------------------------------------------
(* Environment: informer, external actors, store garbage collection *)

\* The informer catches up with the store for key k and notifies the queue.
InformerSync(k) ==
    /\ cache[k] # store[k]
    /\ cache' = [cache EXCEPT ![k] = store[k]]
    /\ queue' = QueueAfterAdd(queue, dirty, processing, k)
    /\ dirty' = dirty \cup {k}
    /\ UNCHANGED <<store, processing, worker, grafanaClient, nextID, createdFor, otherWrites, ae>>

\* A redundant notification (periodic resync) for a key the cache holds.
Resync(k) ==
    /\ cache[k].exists
    /\ k \notin dirty
    /\ queue' = QueueAfterAdd(queue, dirty, processing, k)
    /\ dirty' = dirty \cup {k}
    /\ UNCHANGED <<store, cache, processing, worker, grafanaClient, nextID, createdFor, otherWrites, ae>>

\* An external actor asks for the record's deletion: the store sets the marker.
MarkDeleted(k) ==
    /\ store[k].exists
    /\ ~store[k].deletionTimestamp
    /\ store' = [store EXCEPT ![k] =
                    Stored(@, [@ EXCEPT !.deletionTimestamp = TRUE])]
    /\ UNCHANGED <<cache, queue, dirty, processing, worker, grafanaClient, nextID, createdFor, otherWrites, ae>>

\* Another controller adds its own finalizer token, or removes it again.
OtherWriter(k) ==
    /\ store[k].exists
    /\ otherWrites < MaxOtherWrites
    /\ \/ HasFinalizer(store[k], OtherFinalizer)
       \/ ~store[k].deletionTimestamp
    /\ store' = [store EXCEPT ![k] =
                    Stored(@, [@ EXCEPT !.finalizers =
                        IF HasFinalizer(store[k], OtherFinalizer)
                        THEN RemoveFinalizer(@, OtherFinalizer)
                        ELSE AddFinalizer(@, OtherFinalizer)])]
    /\ otherWrites' = otherWrites + 1
    /\ UNCHANGED <<cache, queue, dirty, processing, worker, grafanaClient, nextID, createdFor, ae>>

\* The store removes a deletion-marked record that has no finalizer left.
StoreGC(k) ==
    /\ store[k].exists
    /\ store[k].deletionTimestamp
    /\ store[k].finalizers = <<>>
    /\ store' = [store EXCEPT ![k] = NoObject]
    /\ UNCHANGED <<cache, queue, dirty, processing, worker, grafanaClient, nextID, createdFor, otherWrites, ae>>

---------------------------------------------------------------------------
(* runDatasourceInjector / reconcileDatasource / runDatasourceFinalizer *)

\* A worker takes the next key, reads the record from the informer's indexer
\* and, when it exists, selects the backend client for it; a failure to
\* select one ends the pass with that error.
StartPass(w) ==
    /\ worker[w].pc = "idle"
    /\ queue # <<>>
    /\ LET k == Head(queue)
           me == [worker[w] EXCEPT !.key = k, !.snap = cache[k], !.ds = cache[k]]
       IN  /\ queue' = Tail(queue)
           /\ dirty' = dirty \ {k}
           /\ processing' = processing \cup {k}
           /\ \/ /\ ~cache[k].exists
                 /\ worker' = [worker EXCEPT ![w] = [me EXCEPT !.pc = "done"]]
                 /\ UNCHANGED grafanaClient
              \/ /\ cache[k].exists
                 /\ worker' = [worker EXCEPT ![w] = [me EXCEPT !.pc = "reconcile"]]
                 /\ grafanaClient' = SetGrafanaClient(k)
              \/ /\ cache[k].exists
                 /\ worker' = [worker EXCEPT ![w] =
                                  [me EXCEPT !.pc = "done", !.err = "client"]]
                 /\ UNCHANGED grafanaClient
    /\ UNCHANGED <<store, cache, nextID, createdFor, otherWrites, ae>>

\* Deletion marker set, finalizer absent: nothing to do.
ReconcileDone(w) ==
    /\ worker[w].pc = "reconcile"
    /\ BeingDeleted(worker[w].ds)
    /\ ~FinalizerPending(worker[w].ds)
    /\ worker' = [worker EXCEPT ![w] = [@ EXCEPT !.pc = "done"]]
    /\ UNCHANGED <<store, cache, queue, dirty, processing, grafanaClient, nextID, createdFor, otherWrites, ae>>

\* runDatasourceFinalizer with no Status.DatasourceID: an error, no call.
FinalizerMissingID(w) ==
    /\ worker[w].pc = "reconcile"
    /\ BeingDeleted(worker[w].ds)
    /\ FinalizerPending(worker[w].ds)
    /\ MissingID(worker[w].ds)
    /\ worker' = [worker EXCEPT ![w] = [@ EXCEPT !.pc = "done", !.err = "missingID"]]
    /\ UNCHANGED <<store, cache, queue, dirty, processing, grafanaClient, nextID, createdFor, otherWrites, ae>>

\* runDatasourceFinalizer: c.grafanaClient.DeleteDatasource(dsID).
CallDelete(w) ==
    /\ worker[w].pc = "reconcile"
    /\ BeingDeleted(worker[w].ds)
    /\ FinalizerPending(worker[w].ds)
    /\ ~MissingID(worker[w].ds)
    /\ \E ok \in BOOLEAN :
          worker' = [worker EXCEPT ![w] =
                        AfterDelete(@, DeleteCall(worker[w].ds, grafanaClient, ok))]
    /\ UNCHANGED <<store, cache, queue, dirty, processing, grafanaClient, nextID, createdFor, otherWrites, ae>>

\* The patch a pass sends for mutator m on its copy of the record, answered
\* res by the store; an empty patch is not sent.
PatchStep(w, m, res) ==
    LET k == worker[w].key
        p == PatchDashboard(worker[w].ds, m)
    IN  IF ~p.send
        THEN /\ res = "ok"
             /\ worker' = [worker EXCEPT ![w] = [@ EXCEPT !.pc = "done"]]
             /\ UNCHANGED store
        ELSE /\ res \in StorePatchResults(store[k], p.patch)
             /\ worker' = [worker EXCEPT ![w] =
                    [@ EXCEPT !.pc = "done", !.err = WriteErr(res),
                              !.write = [op |-> "patch", patch |-> p.patch,
                                         status |-> Nil, res |-> res]]]
             /\ store' = IF res = "ok"
                         THEN [store EXCEPT ![k] = StorePatched(@, p.patch)]
                         ELSE store

\* runDatasourceFinalizer after a successful Delete: remove the finalizer.
PatchRemoveFinalizer(w) ==
    /\ worker[w].pc = "removeFinalizer"
    /\ \E res \in {"ok", "notfound", "conflict", "error"} :
          PatchStep(w, "removeFinalizer", res)
    /\ UNCHANGED <<cache, queue, dirty, processing, grafanaClient, nextID, createdFor, otherWrites, ae>>

\* No deletion marker, no finalizer: add the finalizer, nothing else.
PatchAddFinalizer(w) ==
    /\ worker[w].pc = "reconcile"
    /\ ~BeingDeleted(worker[w].ds)
    /\ NeedsFinalizer(worker[w].ds)
    /\ \E res \in {"ok", "notfound", "conflict", "error"} :
          PatchStep(w, "addFinalizer", res)
    /\ UNCHANGED <<cache, queue, dirty, processing, grafanaClient, nextID, createdFor, otherWrites, ae>>

\* Status.DatasourceID present: c.grafanaClient.UpdateDatasource(dataSrc).
CallUpdate(w) ==
    /\ worker[w].pc = "reconcile"
    /\ ~BeingDeleted(worker[w].ds)
    /\ ~NeedsFinalizer(worker[w].ds)
    /\ HasExternalID(worker[w].ds)
    /\ \E ok \in BOOLEAN :
          worker' = [worker EXCEPT ![w] =
                        AfterUpdate(@, UpdateCall(worker[w].ds, grafanaClient, ok))]
    /\ UNCHANGED <<store, cache, queue, dirty, processing, grafanaClient, nextID, createdFor, otherWrites, ae>>

\* The answers of CreateDatasource: an error, success without an identifier
\* in the answer, or success with the next identifier of the backend.
CreateAnswers ==
    {[ok |-> FALSE, ret |-> Nil], [ok |-> TRUE, ret |-> Nil]}
        \cup (IF nextID <= MaxCreates THEN {[ok |-> TRUE, ret |-> nextID]} ELSE {})

\* Status.DatasourceID absent: c.grafanaClient.CreateDatasource(dataSrc).
CallCreate(w) ==
    /\ worker[w].pc = "reconcile"
    /\ ~BeingDeleted(worker[w].ds)
    /\ ~NeedsFinalizer(worker[w].ds)
    /\ ~HasExternalID(worker[w].ds)
    /\ \E a \in CreateAnswers :
          /\ worker' = [worker EXCEPT ![w] =
                           AfterCreate(@, CreateCall(grafanaClient, a))]
          /\ nextID' = IF a.ret # Nil THEN nextID + 1 ELSE nextID
          /\ createdFor' = IF a.ok THEN createdFor \cup {worker[w].key} ELSE createdFor
    /\ UNCHANGED <<store, cache, queue, dirty, processing, grafanaClient, otherWrites, ae>>

\* After a successful Create: Datasources(ns).UpdateStatus(ds).
UpdateStatus(w) ==
    /\ worker[w].pc = "updateStatus"
    /\ LET k == worker[w].key
           ds == worker[w].ds
       IN  \E res \in StoreStatusResults(store[k], ds) :
              /\ worker' = [worker EXCEPT ![w] =
                    [@ EXCEPT !.pc = "done", !.err = WriteErr(res),
                              !.write = [op |-> "updateStatus", patch |-> EmptyPatch,
                                         status |-> ds.datasourceID, res |-> res]]]
              /\ store' = IF res = "ok"
                          THEN [store EXCEPT ![k] = StoreStatusUpdated(@, ds)]
                          ELSE store
    /\ UNCHANGED <<cache, queue, dirty, processing, grafanaClient, nextID, createdFor, otherWrites, ae>>

\* The handler returns to the dispatcher: the key is done, and after an error
\* it is queued again or, with its requeues used up, dropped.
Return(w) ==
    /\ worker[w].pc = "done"
    /\ \E requeue \in BOOLEAN :
          /\ requeue => worker[w].err # "nil"
          /\ queue' = QueueAfterDone(queue, dirty, worker[w].key, requeue)
          /\ dirty' = IF requeue THEN dirty \cup {worker[w].key} ELSE dirty
    /\ processing' = processing \ {worker[w].key}
    /\ worker' = [worker EXCEPT ![w] = IdleWorker]
    /\ UNCHANGED <<store, cache, grafanaClient, nextID, createdFor, otherWrites, ae>>

Next ==
    \/ \E k \in Keys : InformerSync(k)
    \/ \E k \in Keys : Resync(k)
    \/ \E k \in Keys : MarkDeleted(k)
    \/ \E k \in Keys : OtherWriter(k)
    \/ \E k \in Keys : StoreGC(k)
    \/ \E w \in Workers : StartPass(w)
    \/ \E w \in Workers : ReconcileDone(w)
    \/ \E w \in Workers : FinalizerMissingID(w)
    \/ \E w \in Workers : CallDelete(w)
    \/ \E w \in Workers : PatchRemoveFinalizer(w)
    \/ \E w \in Workers : PatchAddFinalizer(w)
    \/ \E w \in Workers : CallUpdate(w)
    \/ \E w \in Workers : CallCreate(w)
    \/ \E w \in Workers : UpdateStatus(w)
    \/ \E w \in Workers : Return(w)

Spec == Init /\ [][Next]_vars

---------------------------------------------------------------------------
(* Vocabulary of the claims, stated on the passes' logs and on the store *)

\* This controller's finalizer token is on the record.
Holds(obj) == \E i \in 1..Len(obj.finalizers) : obj.finalizers[i] = DatasourceFinalizer

Marked(obj) == obj.deletionTimestamp = TRUE

ExternalID(obj) == obj.datasourceID

Called(w, op) == worker[w].call.op = op

NoExternalCall(w) == worker[w].call = NoCall

NoStoreWrite(w) == worker[w].write = NoWrite

\* The pass of worker w has returned from reconcileDatasource.
Reconciled(w) == worker[w].pc = "done" /\ worker[w].snap.exists /\ worker[w].err # "client"

\* The pass of worker w has sent a patch that takes this controller's
\* finalizer off the finalizer list it read.
SentRemoval(w) ==
    /\ worker[w].write.op = "patch"
    /\ worker[w].write.patch.finalizers.k # "same"
    /\ \A i \in 1..Len(worker[w].write.patch.finalizers.v) :
          worker[w].write.patch.finalizers.v[i] # DatasourceFinalizer

\* The pass of worker w has sent a patch that puts this controller's
\* finalizer at the end of the finalizer list it read, and changes no more.
SentAddition(w) ==
    /\ worker[w].write.op = "patch"
    /\ worker[w].write.patch.finalizers =
          [k |-> "set", v |-> worker[w].snap.finalizers \o <<DatasourceFinalizer>>]
    /\ \A f \in PatchFields \ {"finalizers"} : worker[w].write.patch[f].k = "same"

---------------------------------------------------------------------------
(* C1 *)

C1Issued ==
    \A w \in Workers :
        (~Called(w, "Create") /\ worker'[w].call.op = "Create")
            => /\ Holds(worker[w].snap)
               /\ ~Marked(worker[w].snap)
               /\ store[worker[w].key].exists => Holds(store[worker[w].key])

C1Logged ==
    \A w \in Workers :
        Called(w, "Create") => Holds(worker[w].snap) /\ ~Marked(worker[w].snap)

\* C1: a Create call is issued for a record only in a pass that read the
\* record with this controller's finalizer on it and no deletion marker, and
\* at the moment of the call the store's record, if there still is one, has
\* the finalizer too: no Create is issued for a record that lacks it.
C1_CreateOnlyWithFinalizer == [](C1Logged) /\ [][C1Issued]_vars

C1_Witness ==
    \E w \in Workers :
        /\ Called(w, "Create")
        /\ worker[w].call.ok
        /\ Marked(store[worker[w].key])

---------------------------------------------------------------------------
(* C2 *)

C2Sent ==
    \A w \in Workers :
        SentRemoval(w)
            => /\ worker[w].call.op = "Delete"
               /\ worker[w].call.ok
               /\ worker[w].call.id = ExternalID(worker[w].snap)
               /\ worker[w].call.id # Nil

C2Removed ==
    \A k \in Keys :
        (Holds(store[k]) /\ store'[k].exists /\ ~Holds(store'[k]))
            => \E w \in Workers :
                  /\ worker[w].key = k
                  /\ worker[w].call.op = "Delete"
                  /\ worker[w].call.ok
                  /\ worker[w].call.id = ExternalID(worker[w].snap)
                  /\ SentRemoval(w)'

\* C2: a pass sends the patch that removes the finalizer only after its
\* Delete call, for the identifier the record's status holds, has returned
\* success; and the finalizer leaves the store's record only by such a patch.
C2_RemoveOnlyAfterDelete == [](C2Sent) /\ [][C2Removed]_vars

C2_Witness ==
    \E w \in Workers :
        /\ SentRemoval(w)
        /\ worker[w].write.res = "ok"
        /\ ~Holds(store[worker[w].key])
        /\ store[worker[w].key].exists

---------------------------------------------------------------------------
(* C3 *)

\* C3: a pass over a record read with the deletion marker set and no
\* Status.DatasourceID never calls Delete (it makes no backend call); with
\* the finalizer on the record it returns an error and writes nothing to the
\* store, so the finalizer stays.
C3_NoDeleteWithoutID ==
    \A w \in Workers :
        (worker[w].snap.exists /\ Marked(worker[w].snap)
            /\ ExternalID(worker[w].snap) = Nil)
            => /\ NoExternalCall(w)
               /\ NoStoreWrite(w)
               /\ (worker[w].pc = "done" /\ Holds(worker[w].snap))
                    => worker[w].err # "nil"

C3_Witness ==
    \E w \in Workers :
        /\ worker[w].pc = "done"
        /\ worker[w].err = "missingID"
        /\ Marked(worker[w].snap)
        /\ Holds(worker[w].snap)
        /\ ExternalID(worker[w].snap) = Nil
        /\ Holds(store[worker[w].key])

---------------------------------------------------------------------------
(* C4 *)

C4Kept ==
    \A k \in Keys :
        (ExternalID(store[k]) # Nil /\ store'[k].exists)
            => ExternalID(store'[k]) = ExternalID(store[k])

\* C4: once the store's record has a Status.DatasourceID, no step clears it
\* or replaces it by another value for as long as the record is in the
\* store; the finalizer-removal patch leaves it in place as well.
C4_ExternalIDStable == [][C4Kept]_vars

\* A pass that read the record without identifier has created a second
\* backend object while the store already holds the first identifier.
C4_Witness ==
    \E w \in Workers :
        /\ worker[w].pc = "done"
        /\ Called(w, "Create")
        /\ worker[w].call.ret # Nil
        /\ worker[w].write.op = "updateStatus"
        /\ ExternalID(store[worker[w].key]) # Nil
        /\ ExternalID(store[worker[w].key]) # worker[w].call.ret

---------------------------------------------------------------------------
(* C5 *)

C5Written ==
    \A k \in Keys :
        (store'[k].exists /\ ExternalID(store'[k]) # ExternalID(store[k]))
            => \E w \in Workers :
                  /\ worker[w].key = k
                  /\ worker[w].call.op = "Create"
                  /\ worker[w].call.ok
                  /\ worker[w].call.ret = ExternalID(store'[k])
                  /\ worker'[w].write.op = "updateStatus"
                  /\ worker'[w].write.res = "ok"

C5Logged ==
    \A w \in Workers :
        /\ worker[w].write.op = "updateStatus"
              => /\ Called(w, "Create")
                 /\ worker[w].call.ok
                 /\ worker[w].write.status =
                        IF worker[w].call.ret # Nil THEN worker[w].call.ret
                        ELSE ExternalID(worker[w].snap)
        /\ (Called(w, "Create") /\ ~worker[w].call.ok) => NoStoreWrite(w)

\* C5: the store's Status.DatasourceID changes only by the status update of
\* a pass whose Create call succeeded, and to the identifier that Create
\* answered; a pass sends a status update only after a successful Create,
\* and a pass whose Create failed writes nothing.
C5_StatusOnlyAfterCreate == [](C5Logged) /\ [][C5Written]_vars

C5_Witness ==
    \E w \in Workers :
        /\ Called(w, "Create")
        /\ worker[w].call.ret # Nil
        /\ worker[w].write.op = "updateStatus"
        /\ worker[w].write.res = "ok"
        /\ ExternalID(store[worker[w].key]) = worker[w].call.ret

---------------------------------------------------------------------------
(* C6 *)

\* C6: a reconcile pass over a record read with neither the finalizer nor
\* the deletion marker makes no backend call and sends exactly one store
\* write, the patch that adds this controller's finalizer.
C6_AddFinalizerOnly ==
    \A w \in Workers :
        (worker[w].snap.exists /\ ~Holds(worker[w].snap) /\ ~Marked(worker[w].snap))
            => /\ NoExternalCall(w)
               /\ worker[w].pc \in {"reconcile", "done"}
               /\ worker[w].pc = "reconcile" => NoStoreWrite(w)
               /\ Reconciled(w) => SentAddition(w)

C6_Witness ==
    \E w \in Workers :
        /\ Reconciled(w)
        /\ ~Holds(worker[w].snap)
        /\ ~Marked(worker[w].snap)
        /\ worker[w].snap.finalizers # <<>>
        /\ worker[w].write.res = "ok"
        /\ Holds(store[worker[w].key])

---------------------------------------------------------------------------
(* C7 *)

\* C7: a reconcile pass over a record read with the deletion marker set and
\* the finalizer absent, and a pass for a key the indexer holds no record
\* for, make no backend call and no store write and return no error,
\* whether or not the record has a Status.DatasourceID.
C7_DoneIsNoOp ==
    \A w \in Workers :
        /\ (worker[w].snap.exists /\ Marked(worker[w].snap) /\ ~Holds(worker[w].snap))
              => /\ NoExternalCall(w)
                 /\ NoStoreWrite(w)
                 /\ Reconciled(w) => worker[w].err = "nil"
        /\ (worker[w].pc # "idle" /\ ~worker[w].snap.exists)
              => /\ NoExternalCall(w)
                 /\ NoStoreWrite(w)
                 /\ worker[w].pc = "done"
                 /\ worker[w].err = "nil"

C7_Witness ==
    \E w \in Workers :
        /\ Reconciled(w)
        /\ Marked(worker[w].snap)
        /\ ~Holds(worker[w].snap)
        /\ ExternalID(worker[w].snap) # Nil

C7_WitnessGone ==
    \E w \in Workers : worker[w].pc = "done" /\ ~worker[w].snap.exists

---------------------------------------------------------------------------
(* C8 *)

\* C8: a reconcile pass over a record read with the finalizer, without the
\* deletion marker and with a Status.DatasourceID calls Update with exactly
\* that identifier, calls neither Create nor Delete, and writes nothing to
\* the store, whether the Update succeeds or fails.
C8_UpdateOnly ==
    \A w \in Workers :
        (Holds(worker[w].snap) /\ ~Marked(worker[w].snap)
            /\ ExternalID(worker[w].snap) # Nil)
            => /\ NoStoreWrite(w)
               /\ worker[w].pc \in {"reconcile", "done"}
               /\ worker[w].pc = "reconcile" => NoExternalCall(w)
               /\ Reconciled(w)
                    => /\ Called(w, "Update")
                       /\ worker[w].call.id = ExternalID(worker[w].snap)

C8_Witness ==
    \E w \in Workers :
        /\ Reconciled(w)
        /\ Called(w, "Update")
        /\ ~worker[w].call.ok
        /\ ExternalID(worker[w].snap) = MaxCreates

---------------------------------------------------------------------------
(* C9 *)

\* C9: when a backend call (Create, Update or Delete) of a pass fails, the
\* pass ends there: it returns an error and sends no store write, so a
\* failed Delete leaves the finalizer on the record.
C9_BackendErrorReturned ==
    \A w \in Workers :
        (~NoExternalCall(w) /\ ~worker[w].call.ok)
            => /\ worker[w].pc = "done"
               /\ worker[w].err # "nil"
               /\ NoStoreWrite(w)

C9_Witness ==
    \E w \in Workers :
        /\ Called(w, "Delete")
        /\ ~worker[w].call.ok
        /\ worker[w].pc = "done"
        /\ Holds(store[worker[w].key])

---------------------------------------------------------------------------
(* Patch applied twice: a caller patches a record it holds, then patches the
   record the first call returned, with the same mutator *)

FinalizerLists ==
    {<<>>, <<DatasourceFinalizer>>, <<OtherFinalizer>>,
     <<DatasourceFinalizer, OtherFinalizer>>, <<OtherFinalizer, DatasourceFinalizer>>}

HarnessRecords ==
    [exists : {TRUE}, finalizers : FinalizerLists, deletionTimestamp : BOOLEAN,
     resourceVersion : 1..MaxVersion, datasourceID : {Nil, 1}]

\* The record the caller holds is the store's, or an older version of it, or
\* the store has lost the record since.
StaleOrFresh(cur, held) ==
    \/ held = NoObject
    \/ held = cur
    \/ held \in HarnessRecords /\ held.resourceVersion > cur.resourceVersion

InitApply ==
    /\ store = [k \in Keys |-> IF k = 1 THEN NewObject ELSE NoObject]
    /\ cache = [k \in Keys |-> NoObject]
    /\ queue = <<>>
    /\ dirty = {}
    /\ processing = {}
    /\ worker = [w \in Workers |-> IdleWorker]
    /\ grafanaClient = 0
    /\ nextID = 1
    /\ createdFor = {}
    /\ otherWrites = 0
    /\ \E m \in Mutators, cur \in HarnessRecords, held \in HarnessRecords \cup {NoObject} :
          /\ StaleOrFresh(cur, held)
          /\ ae = [pc |-> "first", mut |-> m, cur |-> cur, held |-> held, apps |-> <<>>]

\* One call of PatchDashboard(c, input, transform) and the store's answer.
HarnessPatch ==
    /\ ae.pc \in {"first", "second"}
    /\ LET input == IF ae.pc = "first" THEN ae.cur ELSE ae.apps[1].out
           p == PatchDashboard(input, ae.mut)
       IN  \E res \in {"none", "ok", "notfound", "conflict", "error"} :
              /\ IF p.send THEN res \in StorePatchResults(ae.held, p.patch)
                           ELSE res = "none"
              /\ LET out == IF ~p.send THEN input
                            ELSE IF res = "ok" THEN StorePatched(ae.held, p.patch)
                            ELSE NoObject
                     app == [in |-> input, verb |-> p.verb, sent |-> p.send,
                             res |-> res, out |-> out]
                 IN  ae' = [ae EXCEPT
                               !.apps = Append(@, app),
                               !.held = IF res = "ok" THEN out ELSE @,
                               !.pc = IF ae.pc = "first" /\ res \in {"none", "ok"}
                                      THEN "second" ELSE "end"]
    /\ UNCHANGED <<store, cache, queue, dirty, processing, worker, grafanaClient,
                   nextID, createdFor, otherWrites>>

\* Between the two calls another controller writes its finalizer token.
HarnessOtherWriter ==
    /\ ae.pc = "second"
    /\ ae.held.exists
    /\ ae.held.resourceVersion <= MaxVersion
    /\ \/ HasFinalizer(ae.held, OtherFinalizer)
       \/ ~ae.held.deletionTimestamp
    /\ ae' = [ae EXCEPT !.held =
                 Stored(@, [@ EXCEPT !.finalizers =
                     IF HasFinalizer(ae.held, OtherFinalizer)
                     THEN RemoveFinalizer(@, OtherFinalizer)
                     ELSE AddFinalizer(@, OtherFinalizer)])]
    /\ UNCHANGED <<store, cache, queue, dirty, processing, worker, grafanaClient,
                   nextID, createdFor, otherWrites>>

NextApply == HarnessPatch \/ HarnessOtherWriter

SpecApply == InitApply /\ [][NextApply]_vars

---------------------------------------------------------------------------
(* C10 *)

\* transform(transform(r)) = transform(r) for every record r.
IsIdempotent(m) ==
    \A r \in HarnessRecords : Mutate(m, Mutate(m, r)) = Mutate(m, r)

WritesSent == Cardinality({i \in 1..Len(ae.apps) : ae.apps[i].sent})

\* C10: a Patch call whose mutator leaves the record unchanged returns that
\* record with verb "unchanged" and sends no write; and when an idempotent
\* mutator that changes the record is applied by Patch and then again to the
\* record the first call returned, the first call sends the one write and
\* the second returns "unchanged" without writing.
C10_PatchIdempotent ==
    /\ \A i \in 1..Len(ae.apps) :
          Mutate(ae.mut, ae.apps[i].in) = ae.apps[i].in
              => /\ ae.apps[i].verb = "unchanged"
                 /\ ~ae.apps[i].sent
                 /\ ae.apps[i].out = ae.apps[i].in
    /\ (Len(ae.apps) = 2 /\ IsIdempotent(ae.mut) /\ Mutate(ae.mut, ae.cur) # ae.cur)
          => /\ ae.apps[1].sent
             /\ ae.apps[2].verb = "unchanged"
             /\ ae.apps[2].out = ae.apps[1].out
             /\ WritesSent = 1

\* The finalizer is added through a stale record, and adding it again to the
\* record the store returned changes nothing.
C10_Witness ==
    /\ Len(ae.apps) = 2
    /\ ae.mut = "addFinalizer"
    /\ ae.apps[1].sent
    /\ ae.apps[1].out.resourceVersion > ae.cur.resourceVersion + 1
    /\ ae.apps[2].verb = "unchanged"
    /\ WritesSent = 1

---------------------------------------------------------------------------
(* Apply Engine: CreateOrPatch called twice on the same key *)

\* The state of the controller before any record is observed; the harnesses
\* of the apply engine leave it alone.
ControllerAtRest ==
    /\ store = [k \in Keys |-> IF k = 1 THEN NewObject ELSE NoObject]
    /\ cache = [k \in Keys |-> NoObject]
    /\ queue = <<>>
    /\ dirty = {}
    /\ processing = {}
    /\ worker = [w \in Workers |-> IdleWorker]
    /\ grafanaClient = 0
    /\ nextID = 1
    /\ createdFor = {}
    /\ otherWrites = 0

controllerVars ==
    <<store, cache, queue, dirty, processing, worker, grafanaClient, nextID,
      createdFor, otherWrites>>

\* &api.Dashboard{TypeMeta: ..., ObjectMeta: meta}: the record CreateOrPatch
\* hands to the mutator when the store has none.
DashboardTemplate ==
    [exists |-> TRUE, finalizers |-> <<>>, deletionTimestamp |-> FALSE,
     resourceVersion |-> 0, datasourceID |-> Nil]

\* Get as the store serves it.
StoreGetResults(held) ==
    (IF held.exists THEN {"ok"} ELSE {"notfound"}) \cup {"error"}

\* Create as the store serves it, with no other writer of the key.
StoreCreateResults(held) ==
    IF held.exists THEN {"exists", "error"} ELSE {"ok", "error"}

\* The record as the store keeps it after Create: it gets its first version.
StoreCreated(obj) == [obj EXCEPT !.resourceVersion = 1]

\* Every fetch error is taken for not-found.
CreateOrPatchOnAnyError(fetch, cur, m) ==
    IF fetch # "ok"
    THEN [verb |-> "created", op |-> "create", obj |-> Mutate(m, DashboardTemplate),
          patch |-> EmptyPatch]
    ELSE LET p == PatchDashboard(cur, m)
         IN  [verb |-> p.verb, op |-> IF p.send THEN "patch" ELSE "none",
              obj |-> cur, patch |-> p.patch]

\* CreateOrPatchDashboard(c, meta, transform) after its Get: the verb it
\* returns and the write it sends, if any.
CreateOrPatchDashboard(fetch, cur, m) ==
    IF fetch = "notfound"
    THEN [verb |-> "created", op |-> "create", obj |-> Mutate(m, DashboardTemplate),
          patch |-> EmptyPatch]
    ELSE IF fetch # "ok"
    THEN [verb |-> "unchanged", op |-> "none", obj |-> NoObject, patch |-> EmptyPatch]
    ELSE LET p == PatchDashboard(cur, m)
         IN  [verb |-> p.verb, op |-> IF p.send THEN "patch" ELSE "none",
              obj |-> cur, patch |-> p.patch]

InitCreateOrPatch ==
    /\ ControllerAtRest
    /\ \E m \in Mutators, held \in HarnessRecords \cup {NoObject} :
          ae = [pc |-> "first", mut |-> m, start |-> held, held |-> held,
                calls |-> <<>>]

\* One call of CreateOrPatchDashboard and the store's answers to it.
HarnessCreateOrPatch ==
    /\ ae.pc \in {"first", "second"}
    /\ \E fetch \in StoreGetResults(ae.held) :
          LET c == CreateOrPatchDashboard(fetch, ae.held, ae.mut)
          IN  \E res \in {"none", "ok", "exists", "notfound", "conflict", "error"} :
                 /\ CASE c.op = "none" -> res = "none"
                      [] c.op = "create" -> res \in StoreCreateResults(ae.held)
                      [] c.op = "patch" -> res \in StorePatchResults(ae.held, c.patch)
                 /\ LET out == CASE res = "none" -> c.obj
                                 [] res = "ok" /\ c.op = "create" -> StoreCreated(c.obj)
                                 [] res = "ok" /\ c.op = "patch" ->
                                        StorePatched(ae.held, c.patch)
                                 [] OTHER -> NoObject
                        call == [fetch |-> fetch, verb |-> c.verb, op |-> c.op,
                                 res |-> res, out |-> out,
                                 err |-> (fetch = "error" \/ res \notin {"none", "ok"})]
                    IN  ae' = [ae EXCEPT
                                  !.calls = Append(@, call),
                                  !.held = IF res = "ok" THEN out ELSE @,
                                  !.pc = IF ae.pc = "first" THEN "second" ELSE "end"]
    /\ UNCHANGED controllerVars

NextCreateOrPatch == HarnessCreateOrPatch

SpecCreateOrPatch == InitCreateOrPatch /\ [][NextCreateOrPatch]_vars

---------------------------------------------------------------------------
(* C11 *)

\* The store had no record under the key and answered both calls without an
\* error.
C11Served ==
    /\ ae.start = NoObject
    /\ Len(ae.calls) = 2
    /\ \A i \in 1..2 : ~ae.calls[i].err

C11Converged ==
    /\ ae.calls[1].verb = "created"
    /\ ae.calls[1].op = "create"
    /\ ae.calls[2].verb = "unchanged"
    /\ ae.calls[2].op = "none"

C11FetchError ==
    \A i \in 1..Len(ae.calls) :
        ae.calls[i].fetch = "error"
            => /\ ae.calls[i].verb = "unchanged"
               /\ ae.calls[i].op = "none"
               /\ ae.calls[i].err

\* C11 as stated: from a store with no record under the key and no other
\* writer, two successive calls of CreateOrPatch with the same mutator return
\* "created" with one create write and then "unchanged" with no write; a
\* fetch error other than not-found is returned with verb "unchanged" and no
\* write.
C11_AnyMutatorConverges ==
    /\ C11Served => C11Converged
    /\ C11FetchError

\* C11, amended: the same for every idempotent mutator.
C11_CreateThenUnchanged ==
    /\ (C11Served /\ IsIdempotent(ae.mut)) => C11Converged
    /\ C11FetchError

\* The record is created with the finalizer, and the second call finds
\* nothing to change.
C11_Witness ==
    /\ C11Served
    /\ ae.mut = "addFinalizer"
    /\ C11Converged
    /\ ae.held = StoreCreated(Mutate("addFinalizer", DashboardTemplate))

---------------------------------------------------------------------------
(* Apply Engine: UpdateDashboardStatus *)

\* Attempts the poll of wait.PollImmediate(RetryInterval, RetryTimeout, ...)
\* gets to make before its timeout.
MaxAttempts == 3

\* The status mutators: one that sets a field to a constant, one that counts
\* on the status it is handed and returns it, and one that counts on a copy.
StatusMutators == {"setPhase", "bumpInPlace", "bumpCopy"}

Transform(m, status) == IF m = "setPhase" THEN 1 ELSE status + 1

\* The mutator writes through the pointer it is handed.
InPlace(m) == m \in {"setPhase", "bumpInPlace"}

\* apply(x, false): out.Status = *transform(&in.Status). The mutator is handed
\* the caller's status itself: submitted is the status sent, left is what
\* in.Status holds afterwards.
ApplyStatus(m, inStatus) ==
    [submitted |-> Transform(m, inStatus),
     left |-> IF InPlace(m) THEN Transform(m, inStatus) ELSE inStatus]

\* kutil.IsRequestRetryable(e)
IsRequestRetryable(res) == res = "retryable"

\* else if err != nil && !kutil.IsRequestRetryable(e2): err is the function's
\* named result, which is nil until the poll has returned.
AbortsOn(err, res) == err # "nil" /\ ~IsRequestRetryable(res)

\* cur is kept after a conflict.
AfterConflictKeepingCur(cur, latest, fetch) == cur

\* After a conflict: latest, e3 := Get(...); case e3 == nil: cur = latest.
AfterConflict(cur, latest, fetch) == IF fetch = "ok" THEN latest ELSE cur

Dashboards ==
    [exists : {TRUE}, resourceVersion : 1..MaxVersion, status : {0, 1}]

\* UpdateStatus as the store serves it: the version token of the submitted
\* record decides between acceptance and conflict.
DashboardStatusResults(held, token) ==
    (IF token = held.resourceVersion THEN {"ok"} ELSE {"conflict"})
        \cup {"retryable", "fatal"}

\* The stored record after an accepted status update.
DashboardStatusUpdated(held, status) ==
    IF held.status = status THEN held
    ELSE [held EXCEPT !.status = status, !.resourceVersion = @ + 1]

InitUpdateStatus ==
    /\ ControllerAtRest
    /\ \E m \in StatusMutators, in \in Dashboards, held \in Dashboards :
          /\ in.resourceVersion <= held.resourceVersion
          /\ in.resourceVersion = held.resourceVersion => in = held
          /\ ae = [pc |-> "run", mut |-> m, in |-> in, inStatus |-> in.status,
                   cur |-> in, held |-> held, attempts |-> <<>>,
                   result |-> "none", err |-> "nil", writers |-> 0]

\* One run of the poll's condition function.
StatusAttempt ==
    /\ ae.pc = "run"
    /\ Len(ae.attempts) < MaxAttempts
    /\ LET ap == ApplyStatus(ae.mut, ae.inStatus)
           token == ae.cur.resourceVersion
       IN  \E res \in DashboardStatusResults(ae.held, token),
              fetch \in {"none", "ok", "retryable", "fatal"} :
              /\ (fetch = "none") = (res # "conflict")
              /\ LET att == [token |-> token, status |-> ap.submitted, res |-> res,
                             fetch |-> fetch,
                             fetched |-> IF fetch = "ok" THEN ae.held.resourceVersion
                                         ELSE 0]
                     stop == CASE res = "conflict" ->
                                     IF fetch = "fatal" THEN "fatal" ELSE "nil"
                               [] AbortsOn(ae.err, res) -> res
                               [] OTHER -> "nil"
                     done == stop = "nil" /\ res = "ok"
                 IN  ae' = [ae EXCEPT
                        !.attempts = Append(@, att),
                        !.inStatus = ap.left,
                        !.cur = IF res = "conflict"
                                THEN AfterConflict(@, ae.held, fetch) ELSE @,
                        !.held = IF res = "ok"
                                 THEN DashboardStatusUpdated(@, ap.submitted) ELSE @,
                        !.pc = IF done \/ stop # "nil" THEN "end" ELSE "run",
                        !.result = IF done THEN "ok"
                                   ELSE IF stop # "nil" THEN "error" ELSE "none",
                        !.err = stop]
    /\ UNCHANGED controllerVars

\* The poll's timeout elapses after an attempt that did not end it.
StatusTimeout ==
    /\ ae.pc = "run"
    /\ Len(ae.attempts) >= 1
    /\ ae' = [ae EXCEPT !.pc = "end", !.result = "error", !.err = "timeout"]
    /\ UNCHANGED controllerVars

\* Another writer changes the record between two attempts.
StatusOtherWriter ==
    /\ ae.pc = "run"
    /\ ae.writers < MaxOtherWrites
    /\ ae' = [ae EXCEPT !.held.resourceVersion = @ + 1, !.writers = @ + 1]
    /\ UNCHANGED controllerVars

NextUpdateStatus == StatusAttempt \/ StatusTimeout \/ StatusOtherWriter

SpecUpdateStatus == InitUpdateStatus /\ [][NextUpdateStatus]_vars

---------------------------------------------------------------------------
(* C12 *)

C12Refetched(i) ==
    ae.attempts[i].res = "conflict" /\ ae.attempts[i].fetch = "ok"

\* C12: when the store answers the status update with conflicts and then
\* accepts it before the timeout, UpdateStatus returns success, and an attempt
\* made after a conflict submits the version token of the record fetched
\* after that conflict, which is not the token of the caller's input.
C12_ConflictRetryUsesFetchedToken ==
    /\ \A i \in 1..Len(ae.attempts) :
          ae.attempts[i].res = "ok"
              => /\ ae.pc = "end"
                 /\ ae.result = "ok"
                 /\ i = Len(ae.attempts)
    /\ \A i \in 2..Len(ae.attempts) :
          C12Refetched(i - 1)
              => /\ ae.attempts[i].token = ae.attempts[i - 1].fetched
                 /\ ae.attempts[i].token # ae.in.resourceVersion

\* Two conflicts, each followed by a fetch, and the third attempt is accepted.
C12_Witness ==
    /\ Len(ae.attempts) = 3
    /\ C12Refetched(1)
    /\ C12Refetched(2)
    /\ ae.attempts[3].res = "ok"
    /\ ae.attempts[3].token > ae.attempts[2].token
    /\ ae.attempts[2].token > ae.attempts[1].token
    /\ ae.result = "ok"

---------------------------------------------------------------------------
(* C13 *)

\* C13: on every attempt of UpdateStatus the status submitted is the mutator
\* applied to the caller's original input status: for any mutator, also one
\* that is not idempotent, the status of attempt k is the status of attempt 1.
C13_StatusFromOriginalInput ==
    \A i \in 1..Len(ae.attempts) :
        /\ ae.attempts[i].status = Transform(ae.mut, ae.in.status)
        /\ ae.attempts[i].status = ae.attempts[1].status

---------------------------------------------------------------------------
(* C14 *)

\* C14: when the store answers a status update with an error that is neither
\* a conflict nor retryable, UpdateStatus ends with that error and makes no
\* further attempt; when the error is retryable, the next attempt is made
\* without a fetch.
C14_AbortsOnFatalError ==
    \A i \in 1..Len(ae.attempts) :
        /\ ae.attempts[i].res = "fatal"
              => /\ i = Len(ae.attempts)
                 /\ ae.pc = "end"
                 /\ ae.result = "error"
                 /\ ae.err = ae.attempts[i].res
        /\ ae.attempts[i].res = "retryable"
              => /\ ae.attempts[i].fetch = "none"
                 /\ ae.err \in {"nil", "timeout"}

---------------------------------------------------------------------------
(* Apply Engine: TryUpdateDashboard *)

\* Update as the store serves it: the whole record is submitted, and its
\* version token decides between acceptance and conflict.
StoreUpdateResults(held, obj) ==
    (IF ~held.exists THEN {"notfound"}
     ELSE IF obj.resourceVersion # held.resourceVersion THEN {"conflict"}
     ELSE {"ok"}) \cup {"error"}

\* Every error of Get ends the poll.
FetchOutcomeAbortOnAnyError(fetch) ==
    IF fetch = "ok" THEN "update" ELSE "abort"

\* After Get: not-found ends the poll with the error, success goes on to
\* Update, any other error is logged and the attempt is over.
FetchOutcome(fetch) ==
    CASE fetch = "notfound" -> "abort"
      [] fetch = "ok" -> "update"
      [] OTHER -> "retry"

\* An error of Update ends the poll.
UpdateOutcomeAbortOnError(res) == IF res = "ok" THEN "done" ELSE "abort"

\* After Update: return e2 == nil, nil.
UpdateOutcome(res) == IF res = "ok" THEN "done" ELSE "retry"

\* errors.Errorf("failed to update Dashboard %s/%s after %d attempts due to
\* %v", ...): the error the function returns when the poll returned one.
TryError(kind, attempt) == [kind |-> kind, attempts |-> attempt]

NoTryError == TryError("nil", 0)

InitTryUpdate ==
    /\ ControllerAtRest
    /\ \E m \in Mutators, held \in HarnessRecords \cup {NoObject} :
          ae = [pc |-> "fetch", mut |-> m, held |-> held, attempts |-> <<>>,
                result |-> "none", err |-> NoTryError, writers |-> 0]

\* An attempt begins: attempt++ and Get.
TryFetch ==
    /\ ae.pc = "fetch"
    /\ Len(ae.attempts) < MaxAttempts
    /\ \E fetch \in StoreGetResults(ae.held) :
          LET o == FetchOutcome(fetch)
              n == Len(ae.attempts) + 1
              att == [fetch |-> fetch,
                      fetched |-> IF fetch = "ok" THEN ae.held ELSE NoObject,
                      submitted |-> NoObject,
                      res |-> IF o = "update" THEN "pending" ELSE "none"]
          IN  ae' = [ae EXCEPT
                        !.attempts = Append(@, att),
                        !.pc = CASE o = "abort" -> "end"
                                 [] o = "update" -> "submit"
                                 [] OTHER -> "fetch",
                        !.result = IF o = "abort" THEN "error" ELSE @,
                        !.err = IF o = "abort" THEN TryError(fetch, n) ELSE @]
    /\ UNCHANGED controllerVars

\* The attempt goes on: Update(transform(cur.DeepCopy())).
TrySubmit ==
    /\ ae.pc = "submit"
    /\ LET n == Len(ae.attempts)
           obj == Mutate(ae.mut, ae.attempts[n].fetched)
       IN  \E res \in StoreUpdateResults(ae.held, obj) :
              LET o == UpdateOutcome(res)
              IN  ae' = [ae EXCEPT
                            !.attempts[n].submitted = obj,
                            !.attempts[n].res = res,
                            !.held = IF res = "ok" THEN Stored(@, obj) ELSE @,
                            !.pc = IF o = "retry" THEN "fetch" ELSE "end",
                            !.result = CASE o = "done" -> "ok"
                                         [] o = "abort" -> "error"
                                         [] OTHER -> @,
                            !.err = IF o = "abort" THEN TryError(res, n) ELSE @]
    /\ UNCHANGED controllerVars

\* The poll's timeout elapses after an attempt that did not end it.
TryTimeout ==
    /\ ae.pc = "fetch"
    /\ Len(ae.attempts) >= 1
    /\ ae' = [ae EXCEPT !.pc = "end", !.result = "error",
                        !.err = TryError("timeout", Len(ae.attempts))]
    /\ UNCHANGED controllerVars

\* Another writer changes the record, or removes it, during the poll.
TryOtherWriter ==
    /\ ae.pc \in {"fetch", "submit"}
    /\ ae.held.exists
    /\ ae.writers < MaxOtherWrites
    /\ \E gone \in BOOLEAN :
          ae' = [ae EXCEPT
                    !.writers = @ + 1,
                    !.held = IF gone THEN NoObject
                             ELSE Stored(@, [@ EXCEPT !.finalizers =
                                     IF HasFinalizer(ae.held, OtherFinalizer)
                                     THEN RemoveFinalizer(@, OtherFinalizer)
                                     ELSE AddFinalizer(@, OtherFinalizer)])]
    /\ UNCHANGED controllerVars

NextTryUpdate == TryFetch \/ TrySubmit \/ TryTimeout \/ TryOtherWriter

SpecTryUpdate == InitTryUpdate /\ [][NextTryUpdate]_vars

---------------------------------------------------------------------------
(* C15 *)

C15Ended(kind) == ae.pc = "end" /\ ae.result = "error" /\ ae.err.kind = kind

\* C15: every attempt of TryUpdate begins with a fetch and submits the
\* mutator applied to the record just fetched; the function returns success
\* only if an update was accepted; a fetch that reports not-found ends it
\* with that error and without an update; an update that fails is followed by
\* another attempt, unless the timeout elapses; and the error it ends with
\* names the number of attempts made.
C15_TryUpdateRetries ==
    /\ \A i \in 1..Len(ae.attempts) :
          LET a == ae.attempts[i]
          IN  /\ a.res \notin {"none", "pending"}
                    => /\ a.fetch = "ok"
                       /\ a.submitted = Mutate(ae.mut, a.fetched)
              /\ a.fetch = "notfound"
                    => /\ a.res = "none"
                       /\ i = Len(ae.attempts)
                       /\ C15Ended("notfound")
              /\ a.res \in {"conflict", "error"}
                    => \/ i < Len(ae.attempts)
                       \/ ae.pc = "fetch"
                       \/ C15Ended("timeout")
    /\ ae.result = "ok"
          => /\ ae.pc = "end"
             /\ ae.attempts[Len(ae.attempts)].res = "ok"
    /\ ae.result = "error"
          => /\ ae.pc = "end"
             /\ ae.err.kind \in {"notfound", "timeout"}
             /\ ae.err.attempts = Len(ae.attempts)

\* The first update loses against another writer, the second attempt fetches
\* the other writer's version and its update is accepted.
C15_Witness ==
    /\ Len(ae.attempts) = 2
    /\ ae.attempts[1].res = "conflict"
    /\ ae.attempts[2].res = "ok"
    /\ ae.attempts[2].fetched # ae.attempts[1].fetched
    /\ ae.attempts[2].submitted = Mutate(ae.mut, ae.attempts[2].fetched)
    /\ ae.attempts[2].submitted # ae.attempts[2].fetched
    /\ ae.result = "ok"

\* The poll gives up after failed updates, and says after how many attempts.
C15_WitnessTimeout ==
    /\ C15Ended("timeout")
    /\ Len(ae.attempts) = MaxAttempts
    /\ ae.err.attempts = MaxAttempts
    /\ \A i \in 1..MaxAttempts : ae.attempts[i].res = "error"

---------------------------------------------------------------------------
(* Worker pool: two records submitted, the workers of the queue share them *)

InitPool ==
    /\ store = [k \in Keys |-> NewObject]
    /\ cache = [k \in Keys |-> NoObject]
    /\ queue = <<>>
    /\ dirty = {}
    /\ processing = {}
    /\ worker = [w \in Workers |-> IdleWorker]
    /\ grafanaClient = 0
    /\ nextID = 1
    /\ createdFor = {}
    /\ otherWrites = 0
    /\ ae = IdleHarness

\* The records are not deleted and have no other writer: the notifications
\* and the passes of the create path.
NextPool ==
    \/ \E k \in Keys : InformerSync(k)
    \/ \E k \in Keys : Resync(k)
    \/ \E w \in Workers : StartPass(w)
    \/ \E w \in Workers : PatchAddFinalizer(w)
    \/ \E w \in Workers : CallUpdate(w)
    \/ \E w \in Workers : CallCreate(w)
    \/ \E w \in Workers : UpdateStatus(w)
    \/ \E w \in Workers : Return(w)

SpecPool == InitPool /\ [][NextPool]_vars

---------------------------------------------------------------------------
(* C16 *)

Running(w) == worker[w].pc # "idle"

\* C16: whatever the number of workers and the notifications, duplicated or
\* not, no two invocations of the Reconciler run at the same time for the
\* same key, and a key whose invocation runs is held by the queue as being
\* processed; invocations for distinct keys do overlap, one on each worker.
C16_OneInvocationPerKey ==
    /\ \A v, w \in Workers :
          (v # w /\ Running(v) /\ Running(w)) => worker[v].key # worker[w].key
    /\ \A w \in Workers : Running(w) => worker[w].key \in processing

\* Two passes overlap, one for each key, and a further notification for one
\* of the keys waits.
C16_Witness ==
    /\ \E v, w \in Workers :
          /\ Running(v) /\ worker[v].key = 1
          /\ Running(w) /\ worker[w].key = 2
    /\ dirty # {}

---------------------------------------------------------------------------
(* Fair dispatch, no failures: the informer delivers, the workers run, the
   store and the backend answer every request they can serve *)

\* A pass that met no failure: the backend client was selected, the backend
\* answered its call with success, Create with an identifier, and the store
\* answered its write as the record's state demands. A backend that has
\* handed out its MaxCreates identifiers refuses a further Create.
Unfailing(wk, next) ==
    /\ wk.err # "client"
    /\ wk.write.res # "error"
    /\ wk.call.op \in {"Delete", "Update"} => wk.call.ok
    /\ wk.call.op = "Create"
          => \/ wk.call.ok /\ wk.call.ret # Nil
             \/ ~wk.call.ok /\ next > MaxCreates

NoFailure == \A w \in Workers : Unfailing(worker[w], nextID)

\* A step of worker w.
WorkerStep(w) ==
    \/ StartPass(w)
    \/ ReconcileDone(w)
    \/ FinalizerMissingID(w)
    \/ CallDelete(w)
    \/ PatchRemoveFinalizer(w)
    \/ PatchAddFinalizer(w)
    \/ CallUpdate(w)
    \/ CallCreate(w)
    \/ UpdateStatus(w)
    \/ Return(w)

\* The record has no writer but the controller and the actor that deletes it.
NextLive ==
    \/ \E k \in Keys : InformerSync(k)
    \/ \E k \in Keys : Resync(k)
    \/ \E k \in Keys : MarkDeleted(k)
    \/ \E k \in Keys : StoreGC(k)
    \/ \E w \in Workers : StartPass(w) /\ NoFailure'
    \/ \E w \in Workers : ReconcileDone(w) /\ NoFailure'
    \/ \E w \in Workers : FinalizerMissingID(w) /\ NoFailure'
    \/ \E w \in Workers : CallDelete(w) /\ NoFailure'
    \/ \E w \in Workers : PatchRemoveFinalizer(w) /\ NoFailure'
    \/ \E w \in Workers : PatchAddFinalizer(w) /\ NoFailure'
    \/ \E w \in Workers : CallUpdate(w) /\ NoFailure'
    \/ \E w \in Workers : CallCreate(w) /\ NoFailure'
    \/ \E w \in Workers : UpdateStatus(w) /\ NoFailure'
    \/ \E w \in Workers : Return(w) /\ NoFailure'

\* The informer observes every change of the store in the end, and a worker
\* that can take a step takes one in the end.
FairDispatch ==
    /\ \A k \in Keys : WF_vars(InformerSync(k))
    /\ \A w \in Workers : WF_vars(WorkerStep(w) /\ NoFailure')

SpecLive == Init /\ [][NextLive]_vars /\ FairDispatch

---------------------------------------------------------------------------
(* C17 *)

C17Active(obj) == Holds(obj) /\ ExternalID(obj) # Nil

\* The step of worker w that puts an identifier into the stored status.
C17Persists(w, k) ==
    /\ ExternalID(store[k]) = Nil
    /\ ExternalID(store'[k]) # Nil
    /\ worker[w].key = k
    /\ worker'[w].write.op = "updateStatus"
    /\ worker[w].write.op = "none"

\* C17: under fair dispatch and without failures, a record submitted with no
\* finalizer, no deletion marker and an empty status, and not deleted since,
\* comes to hold the finalizer and an external identifier, in that order: the
\* finalizer is added by a pass that makes no external call, and the
\* identifier is stored, on a record that holds the finalizer, by a pass that
\* called Create and stores the identifier Create returned.
C17_FinalizerThenExternalID ==
    /\ <>(C17Active(store[1]) \/ Marked(store[1]))
    /\ [][\A k \in Keys :
            /\ (~Holds(store[k]) /\ Holds(store'[k]))
                  => /\ ExternalID(store[k]) = Nil
                     /\ \E w \in Workers :
                           /\ worker[w].key = k
                           /\ worker'[w].write.op = "patch"
                           /\ worker'[w].call = NoCall
            /\ ExternalID(store[k]) # ExternalID(store'[k]) /\ store'[k].exists
                  => /\ Holds(store[k])
                     /\ \E w \in Workers :
                           /\ C17Persists(w, k)
                           /\ worker[w].call.op = "Create"
                           /\ worker[w].call.ok
                           /\ worker[w].call.ret = ExternalID(store'[k])]_vars

\* The record holds the finalizer and the identifier of the one Create call
\* made for it, stored by the pass that made the call.
C17_Witness ==
    /\ C17Active(store[1])
    /\ ~Marked(store[1])
    /\ createdFor = {1}
    /\ nextID = 2
    /\ \E w \in Workers :
          /\ worker[w].call.op = "Create"
          /\ worker[w].call.ret = ExternalID(store[1])
          /\ worker[w].write.op = "updateStatus"
          /\ Holds(worker[w].snap)

---------------------------------------------------------------------------
(* C18 *)

C18Finalizing(obj) == Marked(obj) /\ Holds(obj) /\ ExternalID(obj) # Nil

\* The record was finalized: deletion marker set, this controller's finalizer
\* removed, the identifier of the deleted backend object still in the status.
C18Done(obj) == Marked(obj) /\ ~Holds(obj) /\ ExternalID(obj) # Nil

\* Worker w issues an external call or a store write in this step.
C18Issues(w) ==
    \/ worker[w].call.op = "none" /\ worker'[w].call.op # "none"
    \/ worker[w].write.op = "none" /\ worker'[w].write.op # "none"

C18Reached == C18Finalizing(store[1]) ~> (~store[1].exists \/ C18Done(store[1]))

C18Ordered ==
    [][\A k \in Keys :
          (C18Finalizing(store[k]) /\ ~Holds(store'[k]))
              => \E w \in Workers :
                    /\ worker[w].key = k
                    /\ worker[w].call.op = "Delete"
                    /\ worker[w].call.ok
                    /\ worker[w].call.id = ExternalID(store[k])
                    /\ worker'[w].write.op = "patch"]_vars

\* C18: under fair dispatch and without failures, a record that holds the
\* finalizer and an external identifier and is then deletion-marked reaches
\* Done: Delete is called with that identifier, the finalizer is removed
\* after it, and from then on no dispatch of the key issues an external call
\* or a store write.
C18_DoneThenNoOp ==
    /\ C18Reached
    /\ C18Ordered
    /\ [][\A w \in Workers :
            C18Issues(w) => ~C18Done(store[worker[w].key])]_vars

\* The part of C18 that every behaviour satisfies: Done is reached, through
\* Delete with the stored identifier and then the removal of the finalizer.
C18_ReachesDone == C18Reached /\ C18Ordered

---------------------------------------------------------------------------
(* C19 *)

\* Worker w issues Create in this step.
C19IssuesCreate(w) ==
    worker[w].call.op = "none" /\ worker'[w].call.op = "Create"

\* C19: for every record and every sequence of passes, also when the status
\* write after Create fails, when Create returns no identifier, or when the
\* pass reads a stale snapshot, once a Create call has succeeded for the
\* record no later pass issues Create for it again.
C19_AtMostOneCreate ==
    [][\A w \in Workers :
          C19IssuesCreate(w) => worker[w].key \notin createdFor]_vars

---------------------------------------------------------------------------
(* C20 *)

\* The finalizer tokens of the record that are not this controller's.
C20OtherTokens(obj) ==
    {obj.finalizers[i] : i \in 1..Len(obj.finalizers)} \ {DatasourceFinalizer}

\* The store accepts a finalizer patch of worker w in this step.
C20Patches(w) ==
    /\ worker[w].write.op = "none"
    /\ worker'[w].write.op = "patch"
    /\ worker'[w].write.res = "ok"

\* C20: the patch that adds this controller's finalizer and the patch that
\* removes it leave every other finalizer token of the stored record as it
\* was, also when another writer has added or removed a different token
\* between the read of the snapshot and the patch.
C20_OtherTokensKept ==
    [][\A w \in Workers :
          C20Patches(w)
              => C20OtherTokens(store'[worker[w].key])
                    = C20OtherTokens(store[worker[w].key])]_vars

---------------------------------------------------------------------------
(* C21 *)

\* The pass of worker w has issued an external call.
C21Called(w) == worker[w].call.op \in {"Create", "Update", "Delete"}

\* C21: when several workers reconcile distinct records at the same time,
\* every external call made for a record goes through the backend client
\* selected for that record's own backend reference in the same pass, never
\* through a client another worker's pass selected for a different record.
C21_CallThroughOwnClient ==
    \A w \in Workers :
        C21Called(w) => worker[w].call.client = GrafanaOf(worker[w].key)

===========================================================================
